---- MODULE Spec2Model ----
(***************************************************************************)
(* Model of express_route_util.js (the Express Routing Utility): the route *)
(* tree compiler buildRoutes with its `required` prefix/postfix lists, the *)
(* name -> path table controllerToPathHash, the URL generator              *)
(* getControllerUrl and setDefaultMethod.                                  *)
(*                                                                         *)
(* JavaScript strings are modelled as sequences of one-character strings,  *)
(* so that the regular expressions, path.join and toLowerCase of the code  *)
(* are computed character by character.                                    *)
(***************************************************************************)
EXTENDS Integers, Sequences, FiniteSets, TLC

VARIABLES controllerToPathHash, defaultMethod, routes, leaves, call, result, nCalls

vars == <<controllerToPathHash, defaultMethod, routes, leaves, call, result, nCalls>>

(***************************************************************************)
(* Strings                                                                 *)
(***************************************************************************)

\* The JavaScript string written s, as a sequence of characters.
Chars(s) == [i \in 1..Len(s) |-> SubSeq(s, i, i)]

Range(s) == {s[i] : i \in 1..Len(s)}

Drop(s, n) == SubSeq(s, n + 1, Len(s))

Take(s, n) == SubSeq(s, 1, n)

StartsWith(s, p) == Len(p) <= Len(s) /\ Take(s, Len(p)) = p

Last(s) == s[Len(s)]

\* String.prototype.toLowerCase, on the letters the model's inputs use.
LowerChar(c) ==
    CASE c = "A" -> "a" [] c = "D" -> "d" [] c = "E" -> "e" [] c = "G" -> "g"
      [] c = "L" -> "l" [] c = "O" -> "o" [] c = "P" -> "p" [] c = "S" -> "s"
      [] c = "T" -> "t" [] c = "U" -> "u" [] c = "V" -> "v"
      [] OTHER -> c

toLowerCase(s) == [i \in 1..Len(s) |-> LowerChar(s[i])]

\* String.prototype.split(sep) for a one-character separator.
RECURSIVE split(_, _)
split(s, sep) ==
    IF \A i \in 1..Len(s) : s[i] # sep THEN <<s>>
    ELSE LET k == CHOOSE i \in 1..Len(s) : s[i] = sep /\ \A j \in 1..(i - 1) : s[j] # sep
         IN  <<Take(s, k - 1)>> \o split(Drop(s, k), sep)

\* Array.prototype.join(sep) of an array of strings.
RECURSIVE join(_, _)
join(a, sep) ==
    IF a = <<>> THEN <<>>
    ELSE IF Len(a) = 1 THEN a[1]
    ELSE a[1] \o sep \o join(Tail(a), sep)

(***************************************************************************)
(* path.join of node (POSIX): the non-empty arguments joined by "/" and    *)
(* normalized: empty and "." segments dropped, ".." resolved, a trailing   *)
(* slash kept, the empty relative path written ".".                        *)
(***************************************************************************)
RECURSIVE normalizeArray(_, _, _)
normalizeArray(parts, acc, allowAboveRoot) ==
    IF parts = <<>> THEN acc
    ELSE LET p == Head(parts) IN
         IF p = <<>> \/ p = <<".">> THEN normalizeArray(Tail(parts), acc, allowAboveRoot)
         ELSE IF p = <<".", ".">> THEN
              IF acc # <<>> /\ Last(acc) # <<".", ".">>
              THEN normalizeArray(Tail(parts), Take(acc, Len(acc) - 1), allowAboveRoot)
              ELSE IF allowAboveRoot
              THEN normalizeArray(Tail(parts), Append(acc, p), allowAboveRoot)
              ELSE normalizeArray(Tail(parts), acc, allowAboveRoot)
         ELSE normalizeArray(Tail(parts), Append(acc, p), allowAboveRoot)

pathNormalize(p) ==
    LET isAbsolute    == p # <<>> /\ p[1] = "/"
        trailingSlash == p # <<>> /\ Last(p) = "/"
        body          == join(normalizeArray(split(p, "/"), <<>>, ~isAbsolute), <<"/">>)
        body2         == IF body = <<>> /\ ~isAbsolute THEN <<".">> ELSE body
        body3         == IF body2 # <<>> /\ trailingSlash THEN body2 \o <<"/">> ELSE body2
    IN  (IF isAbsolute THEN <<"/">> ELSE <<>>) \o body3

pathJoin(a, b) ==
    pathNormalize(join(SelectSeq(<<a, b>>, LAMBDA x : x # <<>>), <<"/">>))

(***************************************************************************)
(* JavaScript values                                                       *)
(***************************************************************************)

\* The number Infinity: the default `depth` of line 124; Infinity - 1 = Infinity.
Infinity == 1000000

\* The value `undefined` of a `depth` property that was never set.
Undefined == 0 - 1000000

\* !d for a depth: undefined and 0 are falsy.
Falsy(d) == d = Undefined \/ d = 0

Decrement(d) == IF d = Infinity THEN Infinity ELSE d - 1

\* Properties every object literal {} inherits from Object.prototype.
ObjectPrototypeKeys == {Chars("constructor"), Chars("toString")}

\* controllerToPathHash[controller] (and any obj[key]): an own entry, else a
\* function inherited from Object.prototype, else undefined.
hashGet(h, name) ==
    IF name \in DOMAIN h THEN [kind |-> "string", val |-> h[name]]
    ELSE IF name \in ObjectPrototypeKeys THEN [kind |-> "builtin", val |-> <<>>]
    ELSE [kind |-> "undefined", val |-> <<>>]

\* hashPut as a table in which the first registration of a name wins.
hashPutKeepsFirst(h, name, path) ==
    IF name \in DOMAIN h THEN h
    ELSE [x \in DOMAIN h \cup {name} |-> IF x = name THEN path ELSE h[x]]

\* controllerToPathHash[name] = path
hashPut(h, name, path) ==
    [x \in DOMAIN h \cup {name} |-> IF x = name THEN path ELSE h[x]]

(***************************************************************************)
(* getControllerUrl                                                        *)
(***************************************************************************)

\* The rest of s after a leading run of "?" (the \?* of the RegExp).
RECURSIVE skipQuestionMarks(_)
skipQuestionMarks(s) ==
    IF s # <<>> /\ Head(s) = "?" THEN skipQuestionMarks(Tail(s)) ELSE s

\* thePath.replace(new RegExp(":" + param + "\\?*", "g"), value)
RECURSIVE replaceParam(_, _, _)
replaceParam(thePath, param, value) ==
    IF thePath = <<>> THEN <<>>
    ELSE IF StartsWith(thePath, <<":">> \o param)
    THEN value \o replaceParam(skipQuestionMarks(Drop(thePath, 1 + Len(param))), param, value)
    ELSE <<Head(thePath)>> \o replaceParam(Tail(thePath), param, value)

\* for(var param in params) thePath = thePath.replace(...)
RECURSIVE replaceParams(_, _)
replaceParams(thePath, params) ==
    IF params = <<>> THEN thePath
    ELSE replaceParams(replaceParam(thePath, params[1].key, params[1].value), Tail(params))

\* thePath.replace(/:[^\?]*\?/g, ""): from a ":" up to the next "?", whatever
\* lies between.
RECURSIVE stripOptional(_)
stripOptional(thePath) ==
    IF thePath = <<>> THEN <<>>
    ELSE IF Head(thePath) = ":" /\ "?" \in Range(Tail(thePath))
    THEN LET t == Tail(thePath)
             k == CHOOSE i \in 1..Len(t) : t[i] = "?" /\ \A j \in 1..(i - 1) : t[j] # "?"
         IN  stripOptional(Drop(t, k))
    ELSE <<Head(thePath)>> \o stripOptional(Tail(thePath))

\* exports.getControllerUrl: the error thrown ("" when none) and the value
\* returned (for "Missing required parameter(s)", the path of the message).
getControllerUrl(h, controller, params) ==
    LET got == hashGet(h, controller) IN
    IF got.kind = "undefined" \/ (got.kind = "string" /\ got.val = <<>>)
    THEN [err |-> "Invalid Controller Requested", val |-> <<>>]
    ELSE IF got.kind = "builtin"
    THEN [err |-> "TypeError", val |-> <<>>]
    ELSE LET p1 == replaceParams(got.val, params)
             p2 == stripOptional(p1)
         IN  IF ":" \in Range(p2)
             THEN [err |-> "Missing required parameter(s)", val |-> p2]
             ELSE [err |-> "", val |-> pathJoin(<<>>, p2)]

(***************************************************************************)
(* setDefaultMethod                                                        *)
(***************************************************************************)

\* The alternatives of /^(get|post|put|del|all)$/i and /^(get|post|put|del|all)\//i.
MethodNames == <<Chars("get"), Chars("post"), Chars("put"), Chars("del"), Chars("all")>>

\* theMethod.match(/^(get|post|put|del|all)$/i)
matchesMethod(theMethod) ==
    \E i \in 1..Len(MethodNames) : toLowerCase(theMethod) = MethodNames[i]

\* setDefaultMethod assigning defaultMethod before it validates the name.
setDefaultMethodAssignsFirst(old, theMethod) ==
    [defaultMethod |-> toLowerCase(theMethod),
     err |-> IF matchesMethod(theMethod) THEN "" ELSE "Invalid HTTP method name"]

\* exports.setDefaultMethod: the new defaultMethod and the error thrown.
setDefaultMethod(old, theMethod) ==
    IF matchesMethod(theMethod)
    THEN [defaultMethod |-> toLowerCase(theMethod), err |-> ""]
    ELSE [defaultMethod |-> old, err |-> "Invalid HTTP method name"]

(***************************************************************************)
(* Route trees                                                             *)
(*                                                                         *)
(* A node is a leaf (a controller name or an array of names) or a group    *)
(* (an object: its keys in order, and its `required` property if any).     *)
(* An entry of a `required` list is a name with its `depth` property:      *)
(* Undefined for a plain string, the number for a DepthString.             *)
(***************************************************************************)

Entry(name, depth) == [name |-> Chars(name), depth |-> depth]

\* A plain string of a `required` array.
E(name) == Entry(name, Undefined)

\* exports.DepthString(str, dpt)
DepthString(str, dpt) == Entry(str, dpt)

\* A `prefix` or `postfix` property: missing, one string, or an array.
Absent == [kind |-> "absent", str |-> <<>>, list |-> <<>>]

Str(name) == [kind |-> "string", str |-> Chars(name), list |-> <<>>]

Arr(entries) == [kind |-> "array", str |-> <<>>, list |-> entries]

\* No `required` property on the object.
NoRequired == [present |-> FALSE, prefix |-> Absent, postfix |-> Absent, depth |-> Undefined]

Required(prefix, postfix, depth) ==
    [present |-> TRUE, prefix |-> prefix, postfix |-> postfix, depth |-> depth]

Leaf(names) ==
    [kind |-> "leaf", names |-> [i \in 1..Len(names) |-> Chars(names[i])],
     required |-> NoRequired, children |-> <<>>]

Group(required, children) ==
    [kind |-> "group", names |-> <<>>, required |-> required, children |-> children]

Child(key, node) == [key |-> Chars(key), node |-> node]

\* A number among the controller names of an array: the digits String(n) gives.
NumberValue(digits) == <<"number", digits>>

\* typeof(v) == "string", for an element of an array of controller names.
IsString(v) == v = <<>> \/ v[1] # "number"

\* The property key obj[v] uses: v itself, or String(v) for a number.
propertyKey(v) == IF IsString(v) THEN v ELSE Chars(v[2])

\* An array whose elements are given as values (strings or numbers).
ArrayLeaf(values) ==
    [kind |-> "leaf", names |-> values, required |-> NoRequired, children |-> <<>>]

\* A value that is no string, no Array and no object literal: function(){}.
FunctionNode ==
    [kind |-> "function", names |-> <<>>, required |-> NoRequired, children |-> <<>>]

(***************************************************************************)
(* getController                                                           *)
(***************************************************************************)

\* The controllers object loadControllers builds from the test suite's
\* ./controllers directory: the paths of segments that lead to a value.
Controllers ==
    { <<Chars("test")>>, <<Chars("intercept")>>, <<Chars("donotintercept")>>,
      <<Chars("index")>>, <<Chars("depth")>>, <<Chars("depth"), Chars("test")>> }

\* The walk of getController from the value at path `at` (<<"builtin">> once
\* an inherited Object.prototype function was reached).
RECURSIVE walkHierarchy(_, _)
walkHierarchy(at, hierarchy) ==
    IF hierarchy = <<>> THEN [ok |-> TRUE, handler |-> at]
    ELSE IF at # <<"builtin">> /\ Append(at, Head(hierarchy)) \in Controllers
    THEN walkHierarchy(Append(at, Head(hierarchy)), Tail(hierarchy))
    ELSE IF Head(hierarchy) \in ObjectPrototypeKeys
    THEN walkHierarchy(<<"builtin">>, Tail(hierarchy))
    ELSE [ok |-> FALSE, handler |-> <<>>]

\* getController(controllers, controllerRoute): ok is FALSE when it throws
\* "Invalid Controller Path Found".
getController(controllerRoute) == walkHierarchy(<<>>, split(controllerRoute, "."))

(***************************************************************************)
(* The route key of a leaf: HTTP method(s) and URL                         *)
(***************************************************************************)

\* The alternatives of the RegExp that strips a single method, line 159.
StripNames == <<Chars("get"), Chars("post"), Chars("pul"), Chars("del"), Chars("all")>>

\* The character class [adeglopstu,]
MethodChars == Range(Chars("adeglopstu,"))

\* routeUrl.match(/^(get|post|put|del|all)\//i)
matchSingle(routeUrl) ==
    \E i \in 1..Len(MethodNames) :
        StartsWith(toLowerCase(routeUrl), Append(MethodNames[i], "/"))

\* RegExp.$1.toLowerCase() of that match
singleMethod(routeUrl) ==
    LET i == CHOOSE j \in 1..Len(MethodNames) :
                 StartsWith(toLowerCase(routeUrl), Append(MethodNames[j], "/"))
    IN  toLowerCase(Take(routeUrl, Len(MethodNames[i])))

\* routeUrl.replace(/^(get|post|pul|del|all)/i, "")
stripSingle(routeUrl) ==
    IF \E i \in 1..Len(StripNames) : StartsWith(toLowerCase(routeUrl), StripNames[i])
    THEN LET i == CHOOSE j \in 1..Len(StripNames) :
                      /\ StartsWith(toLowerCase(routeUrl), StripNames[j])
                      /\ \A k \in 1..(j - 1) : ~StartsWith(toLowerCase(routeUrl), StripNames[k])
         IN  Drop(routeUrl, Len(StripNames[i]))
    ELSE routeUrl

\* The length of the longest prefix of s made of characters of [adeglopstu,] (i flag).
RECURSIVE classRun(_)
classRun(s) ==
    IF s # <<>> /\ LowerChar(Head(s)) \in MethodChars THEN 1 + classRun(Tail(s)) ELSE 0

\* routeUrl.match(/^([adeglopstu,]+)\//i)
matchMultiple(routeUrl) ==
    LET n == classRun(routeUrl) IN n >= 1 /\ Len(routeUrl) > n /\ routeUrl[n + 1] = "/"

\* RegExp.$1.toLowerCase().split(",")
multipleMethods(routeUrl) == split(toLowerCase(Take(routeUrl, classRun(routeUrl))), ",")

\* routeUrl.replace(/^([adeglopstu,]*)/i, "")
stripMultiple(routeUrl) == Drop(routeUrl, classRun(routeUrl))

\* Lines 153-163: theMethod (as a list, one element when it is a string) and
\* the routeUrl left.
parseRoute(route, default) ==
    IF matchSingle(route)
    THEN [theMethod |-> <<singleMethod(route)>>, routeUrl |-> stripSingle(route)]
    ELSE IF matchMultiple(route)
    THEN [theMethod |-> multipleMethods(route), routeUrl |-> stripMultiple(route)]
    ELSE [theMethod |-> <<default>>, routeUrl |-> route]

\* Lines 165-169: the URL path from the parent nodes attached, the trailing
\* slash removed except on the root.
finalUrl(currPath, routeUrl) ==
    LET joined == IF currPath # <<>> THEN pathJoin(currPath, routeUrl) ELSE routeUrl
    IN  IF joined # <<"/">>
        THEN (IF joined # <<>> /\ Last(joined) = "/" THEN Take(joined, Len(joined) - 1) ELSE joined)
        ELSE <<"/">>

\* The properties of an Express 2 server a method name of a key can select.
ExpressMethods ==
    {Chars("get"), Chars("post"), Chars("put"), Chars("delete"), Chars("del"), Chars("all")}

(***************************************************************************)
(* buildRoutes                                                             *)
(*                                                                         *)
(* The walk threads one record: the `required` object (one object, shared  *)
(* by reference by every call of the recursion), controllerToPathHash, the *)
(* routes bound on the server, the leaves reached, and the error thrown.   *)
(***************************************************************************)

\* required.postfix is an array, or a string after String.prototype.concat.
ArrayValue(list) == [isStr |-> FALSE, str |-> <<>>, list |-> list]

StringValue(str) == [isStr |-> TRUE, str |-> str, list |-> <<>>]

EntryNames(list) == [i \in 1..Len(list) |-> list[i].name]

\* Line 127: required.prefix.concat(routeObj.required.prefix), when truthy.
concatPrefix(prefix, decl) ==
    IF decl.kind = "array" THEN prefix \o decl.list
    ELSE IF decl.kind = "string" /\ decl.str # <<>>
    THEN Append(prefix, [name |-> decl.str, depth |-> Undefined])
    ELSE prefix

\* Line 128: routeObj.required.postfix.concat(required.postfix), when truthy:
\* Array.prototype.concat for an array, String.prototype.concat for a string.
concatPostfix(decl, postfix) ==
    IF decl.kind = "array"
    THEN ArrayValue(decl.list \o
            (IF postfix.isStr THEN <<[name |-> postfix.str, depth |-> Undefined]>>
             ELSE postfix.list))
    ELSE IF decl.kind = "string" /\ decl.str # <<>>
    THEN StringValue(decl.str \o
            (IF postfix.isStr THEN postfix.str ELSE join(EntryNames(postfix.list), <<",">>)))
    ELSE postfix

\* Lines 131-142, on an array: each entry without a truthy depth takes the
\* object's default depth; an entry of negative depth is spliced out, the
\* others are decremented.
RECURSIVE adjustDepth(_, _)
adjustDepth(objArray, defaultDepth) ==
    IF objArray = <<>> THEN <<>>
    ELSE LET e == Head(objArray)
             d == IF Falsy(e.depth) THEN defaultDepth ELSE e.depth
         IN  IF d < 0 THEN adjustDepth(Tail(objArray), defaultDepth)
             ELSE <<[name |-> e.name, depth |-> Decrement(d)]>>
                      \o adjustDepth(Tail(objArray), defaultDepth)

\* adjustDepth on required.postfix: on a string every assignment is ignored.
adjustPostfix(postfix, defaultDepth) ==
    IF postfix.isStr THEN postfix ELSE ArrayValue(adjustDepth(postfix.list, defaultDepth))

\* Lines 119-144: the `required` object after the entry of buildRoutes into routeObj.
enterGroup(st, routeObj) ==
    LET req     == routeObj.required
        prefixD == IF req.present THEN req.prefix ELSE Arr(<<>>)
        postfixD == IF req.present THEN req.postfix ELSE Arr(<<>>)
        depth   == IF Falsy(req.depth) THEN Infinity ELSE req.depth
    IN  [st EXCEPT !.prefix = adjustDepth(concatPrefix(st.prefix, prefixD), depth),
                   !.postfix = adjustPostfix(concatPostfix(postfixD, st.postfix), depth)]

\* Line 172: [].concat(required.prefix, routeObj[route], required.postfix)
expressCallOf(st, names) ==
    EntryNames(st.prefix) \o names \o
    (IF st.postfix.isStr THEN <<st.postfix.str>> ELSE EntryNames(st.postfix.list))

\* The loop resolving each name before it records it: a name getController
\* throws on is never written.
RECURSIVE registerNamesResolvesFirst(_, _, _, _)
registerNamesResolvesFirst(st, expressCall, i, routeUrl) ==
    IF i > Len(expressCall) THEN st
    ELSE IF ~IsString(expressCall[i])
    THEN [st EXCEPT !.err = "TypeError"]
    ELSE IF getController(expressCall[i]).ok
    THEN registerNamesResolvesFirst(
             [st EXCEPT !.hash = hashPut(st.hash, expressCall[i], routeUrl)],
             expressCall, i + 1, routeUrl)
    ELSE [st EXCEPT !.err = "Invalid Controller Path Found"]

\* Lines 175-178: each name is recorded in controllerToPathHash, then resolved;
\* the loop ends at the first name getController throws on: a TypeError of
\* controllerRoute.split (line 102) when the element is no string.
RECURSIVE registerNames(_, _, _, _)
registerNames(st, expressCall, i, routeUrl) ==
    IF i > Len(expressCall) THEN st
    ELSE LET st1 == [st EXCEPT !.hash = hashPut(st.hash, propertyKey(expressCall[i]), routeUrl)]
         IN  IF ~IsString(expressCall[i])
             THEN [st1 EXCEPT !.err = "TypeError"]
             ELSE IF getController(expressCall[i]).ok
             THEN registerNames(st1, expressCall, i + 1, routeUrl)
             ELSE [st1 EXCEPT !.err = "Invalid Controller Path Found"]

\* Lines 184-190: express[theMethod[i]].apply(express, expressCall) for each
\* method; a method the server does not have throws a TypeError.
RECURSIVE bindMethods(_, _, _, _)
bindMethods(st, theMethod, i, binding) ==
    IF i > Len(theMethod) THEN st
    ELSE IF theMethod[i] \in ExpressMethods
    THEN bindMethods([st EXCEPT !.routes = Append(st.routes,
                          [binding EXCEPT !.method = theMethod[i]])],
                     theMethod, i + 1, binding)
    ELSE [st EXCEPT !.err = "TypeError"]

\* Lines 151-190: a leaf node.
buildLeaf(st, route, names, currPath, loc) ==
    LET parsed      == parseRoute(route, st.defaultMethod)
        routeUrl    == finalUrl(currPath, parsed.routeUrl)
        expressCall == expressCallOf(st, names)
        st1 == [st EXCEPT !.leaves = Append(st.leaves,
                   [path |-> routeUrl, chain |-> expressCall, loc |-> loc,
                    route |-> route, currPath |-> currPath, names |-> names,
                    methods |-> parsed.theMethod])]
        st2 == registerNames(st1, expressCall, 1, routeUrl)
        binding == [method |-> <<>>, path |-> routeUrl, chain |-> expressCall,
                    handlers |-> [i \in 1..Len(expressCall) |->
                                     getController(expressCall[i]).handler],
                    loc |-> loc]
    IN  IF st2.err # "" THEN st2 ELSE bindMethods(st2, parsed.theMethod, 1, binding)

\* Lines 118-199. loc is the position of routeObj in the tree: the indexes
\* of the keys that lead to it.
RECURSIVE buildRoutes(_, _, _, _)
RECURSIVE buildChildren(_, _, _, _, _)
buildChildren(st, routeObj, currPath, i, loc) ==
    IF st.err # "" \/ i > Len(routeObj.children) THEN st
    ELSE LET c   == routeObj.children[i]
             st1 == IF c.node.kind = "leaf"
                    THEN buildLeaf(st, c.key, c.node.names, currPath, Append(loc, i))
                    ELSE IF c.node.kind = "group"
                    THEN buildRoutes(st, c.node, pathJoin(currPath, c.key), Append(loc, i))
                    ELSE [st EXCEPT !.err = "Invalid Route Definition"]
         IN  buildChildren(st1, routeObj, currPath, i + 1, loc)

buildRoutes(st, routeObj, currPath, loc) ==
    buildChildren(enterGroup(st, routeObj), routeObj, currPath, 1, loc)

\* registerRoutes as a transaction: a walk that fails leaves no binding and
\* no entry of its own behind.
registerRoutesRollsBack(hash, default, tree) ==
    LET st == buildRoutes([prefix |-> <<>>, postfix |-> ArrayValue(<<>>), hash |-> hash,
                           defaultMethod |-> default, routes |-> <<>>, leaves |-> <<>>,
                           err |-> ""],
                          tree, <<>>, <<>>)
    IN  IF st.err = "" THEN st ELSE [st EXCEPT !.hash = hash, !.routes = <<>>]

\* exports.registerRoutes on a new Express server: buildRoutes from the root
\* with no `required` object yet.
registerRoutes(hash, default, tree) ==
    buildRoutes([prefix |-> <<>>, postfix |-> ArrayValue(<<>>), hash |-> hash,
                 defaultMethod |-> default, routes |-> <<>>, leaves |-> <<>>, err |-> ""],
                tree, <<>>, <<>>)

(***************************************************************************)
(* Inputs                                                                  *)
(***************************************************************************)

\* The route tree { key: names }
OneLeaf(key, names) == Group(NoRequired, <<Child(key, Leaf(names))>>)

\* The route tree { groupKey: { key: names } }
Nested(groupKey, key, names) ==
    Group(NoRequired, <<Child(groupKey, Group(NoRequired, <<Child(key, Leaf(names))>>))>>)

\* The tree of 'test required controllers', one group of it at a time.
PrefixTree ==
    Group(NoRequired, <<
        Child("/prefix", Group(Required(Str("intercept"), Absent, Undefined), <<
            Child("/test", Leaf(<<"test">>)),
            Child("/depth", Group(NoRequired, <<Child("/test", Leaf(<<"test">>))>>)) >>)) >>)

NoDepthTree ==
    Group(NoRequired, <<
        Child("/nodepth", Group(Required(Str("intercept"), Absent, 0), <<
            Child("/test", Leaf(<<"test">>)),
            Child("/depth", Group(NoRequired, <<Child("/test", Leaf(<<"test">>))>>)) >>)) >>)

ComplexDepthTree ==
    Group(NoRequired, <<
        Child("/complexdepth",
              Group(Required(Arr(<<DepthString("test", 0), E("intercept")>>), Absent, Undefined), <<
            Child("/test", Leaf(<<"donotintercept">>)),
            Child("/depth", Group(NoRequired, <<Child("/test", Leaf(<<"donotintercept">>))>>)) >>)) >>)

\* Two sibling groups, each with its own `required` lists.
SiblingPostfixTree ==
    Group(NoRequired, <<
        Child("/a", Group(Required(Absent, Arr(<<E("intercept")>>), Undefined), <<
            Child("/x", Leaf(<<"test">>)) >>)),
        Child("/b", Group(Required(Absent, Arr(<<E("donotintercept")>>), Undefined), <<
            Child("/y", Leaf(<<"index">>)) >>)) >>)

SiblingPrefixTree ==
    Group(NoRequired, <<
        Child("/b", Group(Required(Arr(<<E("donotintercept")>>), Absent, Undefined), <<
            Child("/y", Leaf(<<"index">>)) >>)),
        Child("/a", Group(Required(Str("intercept"), Str("depth.test"), Undefined), <<
            Child("/x", Leaf(<<"test">>)) >>)) >>)

\* A leaf whose second name is no controller, between two leaves that resolve.
FailingTree ==
    Group(NoRequired, <<
        Child("/ok", Leaf(<<"index">>)),
        Child("/u", Group(NoRequired, <<
            Child("/:id", Leaf(<<"test", "nosuch", "intercept">>)) >>)),
        Child("/after", Leaf(<<"depth.test">>)) >>)

\* The keys of the one-leaf trees.
LeafKeys ==
    << "/test/:testVar", "/:id/:idx", "/:a/:b?", "/:a?", "/a/b", "//a", "/a//", "/",
       "", "/test", "get,post/test", "GET/x", "post/x", "put/x", "del/x", "delete/x",
       "all/x", "Get,POST/x/" >>

Trees ==
    [i \in 1..Len(LeafKeys) |-> OneLeaf(LeafKeys[i], <<"test">>)] \o
    << Nested("/a", "/b", <<"test">>),
       Nested("/a", "/", <<"index">>),
       Nested("/", "/", <<"index">>),
       Nested("/a/", "put/b//", <<"intercept", "test">>),
       FailingTree,
       PrefixTree, NoDepthTree, ComplexDepthTree, SiblingPostfixTree, SiblingPrefixTree >>

\* The names asked of getControllerUrl.
ControllerNames ==
    { Chars("test"), Chars("index"), Chars("intercept"), Chars("controllers.test"),
      Chars("constructor") }

Param(key, value) == [key |-> Chars(key), value |-> Chars(value)]

\* The params objects, their keys in enumeration order.
ParamsObjects ==
    { <<>>, <<Param("testVar", "12")>>, <<Param("id", "1"), Param("idx", "2")>>,
      <<Param("idx", "2"), Param("id", "1")>>, <<Param("a", "x")>>, <<Param("b", "y")>> }

\* The arguments of setDefaultMethod.
MethodArguments ==
    { Chars("post"), Chars("DEL"), Chars("delete"), Chars("invalid") }

\* The number of registerRoutes calls of a run.
MaxCalls == 2

(***************************************************************************)
(* The state machine: the module's state and its three exported calls      *)
(***************************************************************************)

NoCall == [op |-> "none", tree |-> 0, controller |-> <<>>, params |-> <<>>, theMethod |-> <<>>]

Init ==
    /\ controllerToPathHash = <<>>
    /\ defaultMethod = Chars("get")
    /\ routes = <<>>
    /\ leaves = <<>>
    /\ call = NoCall
    /\ result = [err |-> "", val |-> <<>>]
    /\ nCalls = 0

SetDefaultMethod(theMethod) ==
    LET r == setDefaultMethod(defaultMethod, theMethod) IN
    /\ defaultMethod' = r.defaultMethod
    /\ call' = [NoCall EXCEPT !.op = "setDefaultMethod", !.theMethod = theMethod]
    /\ result' = [err |-> r.err, val |-> <<>>]
    /\ UNCHANGED <<controllerToPathHash, routes, leaves, nCalls>>

RegisterRoutes(t) ==
    LET st == registerRoutes(controllerToPathHash, defaultMethod, Trees[t]) IN
    /\ nCalls < MaxCalls
    /\ nCalls' = nCalls + 1
    /\ controllerToPathHash' = st.hash
    /\ routes' = st.routes
    /\ leaves' = st.leaves
    /\ call' = [NoCall EXCEPT !.op = "registerRoutes", !.tree = t]
    /\ result' = [err |-> st.err, val |-> <<>>]
    /\ UNCHANGED defaultMethod

GetControllerUrl(controller, params) ==
    /\ call' = [NoCall EXCEPT !.op = "getControllerUrl", !.controller = controller,
                              !.params = params]
    /\ result' = getControllerUrl(controllerToPathHash, controller, params)
    /\ UNCHANGED <<controllerToPathHash, defaultMethod, routes, leaves, nCalls>>

\* getControllerUrl changes nothing of the module's state: what can follow it
\* is what can follow the state it was called in, so a run is followed up to
\* its first getControllerUrl.
Next ==
    /\ call.op # "getControllerUrl"
    /\ \/ \E m \in MethodArguments : SetDefaultMethod(m)
       \/ \E t \in 1..Len(Trees) : RegisterRoutes(t)
       \/ \E c \in ControllerNames, ps \in ParamsObjects : GetControllerUrl(c, ps)

Spec == Init /\ [][Next]_vars

(***************************************************************************)
(* The walk of buildRoutes on trees of groups: the same three calls on a   *)
(* second set of inputs                                                    *)
(***************************************************************************)

\* The URL hierarchy of the README, with the controllers of the test suite.
ReadmeTree ==
    Group(NoRequired, <<
        Child("/", Leaf(<<"index">>)),
        Child("get,post/login", Leaf(<<"test">>)),
        Child("post/logout", Leaf(<<"intercept", "test">>)),
        Child("/social", Group(NoRequired, <<
            Child("/", Leaf(<<"index">>)),
            Child("/profile", Group(NoRequired, <<
                Child("/:username", Leaf(<<"test">>)),
                Child("get,post/edit", Leaf(<<"intercept", "depth.test">>)) >>)) >>)) >>)

\* A key with HTTP methods that holds an object.
MethodGroupTree ==
    Group(NoRequired, <<
        Child("post/a", Group(NoRequired, <<
            Child("/b", Leaf(<<"test">>)),
            Child("get,post/c", Leaf(<<"index">>)) >>)) >>)

\* The function of 'test registerRoutes invalid pathToControllerTree object',
\* inside a group and between leaves.
FunctionTree ==
    Group(NoRequired, <<
        Child("/ok", Leaf(<<"index">>)),
        Child("/g", Group(NoRequired, <<
            Child("/in", Leaf(<<"test">>)),
            Child("/bad", FunctionNode),
            Child("/late", Leaf(<<"intercept">>)) >>)),
        Child("/after", Leaf(<<"depth.test">>)) >>)

\* An array that holds a number: { '/ok': 'index', '/bad': ['test', 3], ... }
NumberInArrayTree ==
    Group(NoRequired, <<
        Child("/ok", Leaf(<<"index">>)),
        Child("/bad", ArrayLeaf(<<Chars("test"), NumberValue("3")>>)),
        Child("/after", Leaf(<<"depth.test">>)) >>)

\* Two nested groups, each with `required` prefix and postfix arrays.
NestedRequiredTree ==
    Group(NoRequired, <<
        Child("/g1", Group(Required(Arr(<<E("intercept")>>), Arr(<<E("donotintercept")>>), Undefined), <<
            Child("/l", Leaf(<<"test">>)),
            Child("/g2", Group(Required(Arr(<<E("index")>>), Arr(<<E("depth.test")>>), Undefined), <<
                Child("/leaf", Leaf(<<"test", "depth">>)),
                Child("/g3", Group(NoRequired, <<Child("/deep", Leaf(<<"test">>))>>)) >>)) >>)) >>)

\* The same two groups, the inner one after a sibling group with its own
\* `required`, and the same leaf before and after the two.
NestedAfterSiblingTree ==
    Group(NoRequired, <<
        Child("/g1", Group(Required(Arr(<<E("intercept")>>), Arr(<<E("donotintercept")>>), Undefined), <<
            Child("/first", Leaf(<<"test">>)),
            Child("/s", Group(Required(Arr(<<E("depth")>>), Absent, Undefined), <<
                Child("/in", Leaf(<<"test">>)) >>)),
            Child("/g2", Group(Required(Arr(<<E("index")>>), Arr(<<E("depth.test")>>), Undefined), <<
                Child("/leaf", Leaf(<<"test">>)) >>)),
            Child("/last", Leaf(<<"test">>)) >>)) >>)

\* An entry of depth 1, and leaves 0, 1 and 2 groups below its group.
DepthOneTree ==
    Group(NoRequired, <<
        Child("/g", Group(Required(Arr(<<DepthString("intercept", 1)>>), Absent, Undefined), <<
            Child("/t", Leaf(<<"test">>)),
            Child("/d1", Group(NoRequired, <<
                Child("/t", Leaf(<<"test">>)),
                Child("/d2", Group(NoRequired, <<Child("/t", Leaf(<<"test">>))>>)) >>)) >>)) >>)

\* Entries that take the default depth 2 of their group, and a group below
\* with a default depth of its own.
DefaultDepthTree ==
    Group(NoRequired, <<
        Child("/g", Group(Required(Arr(<<E("intercept")>>), Arr(<<E("donotintercept")>>), 2), <<
            Child("/d1", Group(Required(Absent, Absent, 1), <<
                Child("/d2", Group(NoRequired, <<
                    Child("/t", Leaf(<<"test">>)),
                    Child("/d3", Group(NoRequired, <<
                        Child("/t", Leaf(<<"test">>)) >>)) >>)) >>)) >>)) >>)

\* A name of Object.prototype as controller.
PrototypeNameTree ==
    Group(NoRequired, <<
        Child("/ok", Leaf(<<"index">>)),
        Child("get,post/x", Leaf(<<"test", "constructor">>)) >>)

\* Names that are no controllers, inherited from `required`.
UnresolvedPrefixTree ==
    Group(NoRequired, <<
        Child("/ok", Leaf(<<"test">>)),
        Child("/g", Group(Required(Arr(<<E("intercept"), E("depth.nosuch")>>), Absent, Undefined), <<
            Child("get,post/x", Leaf(<<"test">>)) >>)),
        Child("/after", Leaf(<<"index">>)) >>)

UnresolvedPostfixTree ==
    Group(NoRequired, <<
        Child("/g", Group(Required(Absent, Arr(<<E("nosuch")>>), Undefined), <<
            Child("/x", Leaf(<<"test", "index">>)),
            Child("/y", Leaf(<<"index">>)) >>)) >>)

\* Keys with a text before the first '/' that is no method list, with a
\* method written twice, and with a required placeholder before an optional one.
KeysTree ==
    Group(NoRequired, <<
        Child("hello/x", Leaf(<<"index">>)),
        Child("get,get/x", Leaf(<<"intercept">>)),
        Child("post,GET,post/y", Leaf(<<"donotintercept">>)),
        Child("/:a/x/:b?", Leaf(<<"test">>)) >>)

\* The keys of the one-leaf trees of the walk: letters of [adeglopstu,]
\* before the first '/'.
WalkKeys == << "get,pots/x", "data/x", "go/x" >>

WalkTrees ==
    << ReadmeTree, MethodGroupTree, FailingTree, FunctionTree, NumberInArrayTree,
       NestedRequiredTree, NestedAfterSiblingTree, DepthOneTree, DefaultDepthTree,
       PrototypeNameTree, UnresolvedPrefixTree, UnresolvedPostfixTree, KeysTree >> \o
    [i \in 1..Len(WalkKeys) |-> OneLeaf(WalkKeys[i], <<"test">>)]

\* The names and the params objects asked of getControllerUrl after a walk.
WalkNames == { Chars("test"), Chars("nosuch") }

WalkParams ==
    { <<>>, <<Param("a", "1")>>, <<Param("b", "2")>>, <<Param("a", "1"), Param("b", "2")>> }

\* The arguments of setDefaultMethod before a walk.
WalkMethods == { Chars("post"), Chars("invalid") }

\* The number of registerRoutes calls of a run of the walk.
MaxWalks == 2

RegisterWalk(t) ==
    LET st == registerRoutes(controllerToPathHash, defaultMethod, WalkTrees[t]) IN
    /\ nCalls < MaxWalks
    /\ nCalls' = nCalls + 1
    /\ controllerToPathHash' = st.hash
    /\ routes' = st.routes
    /\ leaves' = st.leaves
    /\ call' = [NoCall EXCEPT !.op = "registerRoutes", !.tree = t]
    /\ result' = [err |-> st.err, val |-> <<>>]
    /\ UNCHANGED defaultMethod

WalkNext ==
    /\ call.op # "getControllerUrl"
    /\ \/ \E m \in WalkMethods : SetDefaultMethod(m)
       \/ \E t \in 1..Len(WalkTrees) : RegisterWalk(t)
       \/ \E c \in WalkNames, ps \in WalkParams : GetControllerUrl(c, ps)

WalkSpec == Init /\ [][WalkNext]_vars

(***************************************************************************)
(* What the claims speak of                                                *)
(***************************************************************************)

\* The characters of a placeholder name of an Express path.
NameChars ==
    Range(Chars("abcdefghijklmnopqrstuvwxyzABCDEFGHIJKLMNOPQRSTUVWXYZ0123456789_"))

RECURSIVE nameRun(_)
nameRun(s) == IF s # <<>> /\ Head(s) \in NameChars THEN 1 + nameRun(Tail(s)) ELSE 0

\* The placeholders of a path template: ":name" is required, ":name?" optional.
RECURSIVE Placeholders(_)
Placeholders(template) ==
    IF template = <<>> THEN {}
    ELSE IF Head(template) = ":"
    THEN LET n    == nameRun(Tail(template))
             rest == Drop(Tail(template), n)
         IN  {[name |-> Take(Tail(template), n),
               optional |-> rest # <<>> /\ Head(rest) = "?"]} \cup Placeholders(rest)
    ELSE Placeholders(Tail(template))

ParamKeys(params) == {params[i].key : i \in 1..Len(params)}

ParamValue(params, key) ==
    params[CHOOSE i \in 1..Len(params) : params[i].key = key /\
                 \A j \in (i + 1)..Len(params) : params[j].key # key].value

\* The template with each placeholder replaced by the value of the key of
\* exactly its name, and nothing else changed.
RECURSIVE Substituted(_, _)
Substituted(template, params) ==
    IF template = <<>> THEN <<>>
    ELSE IF Head(template) = ":"
    THEN LET n     == nameRun(Tail(template))
             name  == Take(Tail(template), n)
             rest  == Drop(Tail(template), n)
             rest2 == IF rest # <<>> /\ Head(rest) = "?" THEN Tail(rest) ELSE rest
         IN  (IF name \in ParamKeys(params) THEN ParamValue(params, name)
              ELSE <<":">> \o name) \o Substituted(rest2, params)
    ELSE <<Head(template)>> \o Substituted(Tail(template), params)

\* The state after a getControllerUrl call on a name that is in the table.
AskedRegistered ==
    call.op = "getControllerUrl" /\ call.controller \in DOMAIN controllerToPathHash

Template == controllerToPathHash[call.controller]

\* C1: when the template bound for the name has placeholders, all required,
\* and params gives a value for each of them, getControllerUrl returns the
\* template with every ":key" replaced by the value of key and nothing else
\* changed ('/test/:testVar' with testVar = 12 gives '/test/12').
C1_SubstitutesEveryPlaceholder ==
    ( /\ AskedRegistered
      /\ Placeholders(Template) # {}
      /\ \A ph \in Placeholders(Template) :
            ~ph.optional /\ ph.name \in ParamKeys(call.params) )
    => (result.err = "" /\ result.val = Substituted(Template, call.params))

\* C2: when the template bound for the name has a required placeholder that
\* params gives no value for, getControllerUrl fails with 'Missing required
\* parameter(s)', whatever other placeholders the template has.
C2_MissingParameterFails ==
    ( /\ AskedRegistered
      /\ \E ph \in Placeholders(Template) :
            ~ph.optional /\ ph.name \notin ParamKeys(call.params) )
    => result.err = "Missing required parameter(s)"

\* C3: getControllerUrl fails with 'Invalid Controller Requested' for every
\* name that registerRoutes never recorded, whatever the params and whatever
\* else is registered.
C3_UnknownNameFails ==
    (call.op = "getControllerUrl" /\ call.controller \notin DOMAIN controllerToPathHash)
    => result.err = "Invalid Controller Requested"

\* C4: round trip: for a name bound by the last registerRoutes at a path
\* without placeholders, getControllerUrl(name) with no params returns
\* exactly the path bound with the dispatcher, leaves at the root included.
C4_RoundTrip ==
    ( /\ AskedRegistered
      /\ call.params = <<>>
      /\ ":" \notin Range(Template)
      /\ \E i \in 1..Len(routes) :
            routes[i].path = Template /\ call.controller \in Range(routes[i].chain) )
    => (result.err = "" /\ result.val = Template)

\* The state after a registerRoutes call, and the tree it was given.
Registered == call.op = "registerRoutes"

Tree == Trees[call.tree]

RECURSIVE NodeAt(_, _)
NodeAt(node, loc) ==
    IF loc = <<>> THEN node ELSE NodeAt(node.children[Head(loc)].node, Tail(loc))

\* The entries a `prefix` or `postfix` property declares.
DeclEntries(decl) ==
    IF decl.kind = "array" THEN decl.list
    ELSE IF decl.kind = "string" THEN <<[name |-> decl.str, depth |-> Undefined]>>
    ELSE <<>>

\* The names a group's `required` declares, prefix and postfix.
DeclNames(group) ==
    Range(EntryNames(DeclEntries(group.required.prefix))) \cup
    Range(EntryNames(DeclEntries(group.required.postfix)))

\* The names the groups above the node at loc declare.
AncestorNames(tree, loc) ==
    UNION {DeclNames(NodeAt(tree, Take(loc, k))) : k \in 0..(Len(loc) - 1)}

\* The names declared by a group and by the groups inside it.
RECURSIVE SubtreeNames(_)
SubtreeNames(node) ==
    IF node.kind # "group" THEN {}
    ELSE DeclNames(node) \cup
         UNION {SubtreeNames(node.children[i].node) : i \in 1..Len(node.children)}

\* The depth budget an entry is declared with: its own depth, else the
\* `depth` of the `required` that declares it, else no limit.
Budget(group, e) ==
    IF e.depth # Undefined THEN e.depth
    ELSE IF group.required.depth # Undefined THEN group.required.depth
    ELSE Infinity

\* The number of entries of the groups above loc that carry the name.
Declarations(tree, loc, name) ==
    LET all == {<<k, side, i>> \in (0..(Len(loc) - 1)) \X {"prefix", "postfix"} \X (1..3) :
                  LET r == NodeAt(tree, Take(loc, k)).required
                      l == DeclEntries(IF side = "prefix" THEN r.prefix ELSE r.postfix)
                  IN  i <= Len(l) /\ l[i].name = name}
    IN  Cardinality(all)

\* C5: a prefix entry of depth budget 0 (by `required.depth = 0` or by its
\* own depth 0) is in the chain of the leaves that are direct children of
\* its group and in the chain of no leaf of a nested group, while an entry
\* of the same list without depth limit is in the chain of all of them.
C5_DepthZeroStopsAtChildren ==
    Registered =>
      \A n \in 1..Len(leaves) :
        \A k \in 0..(Len(leaves[n].loc) - 1) :
          LET leaf  == leaves[n]
              group == NodeAt(Tree, Take(leaf.loc, k))
              below == Len(leaf.loc) - k - 1
              list  == DeclEntries(group.required.prefix)
          IN  \A i \in 1..Len(list) :
                /\ (Budget(group, list[i]) = 0 /\ below = 0)
                      => list[i].name \in Range(leaf.chain)
                /\ ( /\ Budget(group, list[i]) = 0 /\ below >= 1
                     /\ list[i].name \notin Range(leaf.names)
                     /\ Declarations(Tree, leaf.loc, list[i].name) = 1 )
                      => list[i].name \notin Range(leaf.chain)
                /\ Budget(group, list[i]) = Infinity
                      => list[i].name \in Range(leaf.chain)

\* C6: the chain of a leaf under a group holds no name that only a sibling
\* of that group (or a group inside the sibling) declares in its `required`,
\* whichever of the two siblings comes first.
C6_SiblingsDoNotLeak ==
    Registered =>
      \A n \in 1..Len(leaves) :
        \A k \in 1..(Len(leaves[n].loc) - 1) :
          LET leaf   == leaves[n]
              parent == NodeAt(Tree, Take(leaf.loc, k - 1))
          IN  \A j \in 1..Len(parent.children) :
                j # leaf.loc[k] =>
                  \A name \in SubtreeNames(parent.children[j].node) :
                    ( /\ name \notin Range(leaf.names)
                      /\ name \notin AncestorNames(Tree, leaf.loc) )
                    => name \notin Range(leaf.chain)

\* A method list as the README describes it: names of HTTP methods separated
\* by commas, in any letter case.
ListedMethods ==
    {Chars("get"), Chars("post"), Chars("put"), Chars("delete"), Chars("del"), Chars("all")}

SlashAt(key) == CHOOSE i \in 1..Len(key) : key[i] = "/" /\ \A j \in 1..(i - 1) : key[j] # "/"

HasMethodList(key) ==
    /\ "/" \in Range(key)
    /\ SlashAt(key) > 1
    /\ \A m \in Range(split(toLowerCase(Take(key, SlashAt(key) - 1)), ",")) : m \in ListedMethods

KeyMethods(key) == Range(split(toLowerCase(Take(key, SlashAt(key) - 1)), ","))

BoundMethods(loc) == {routes[i].method : i \in {j \in 1..Len(routes) : routes[j].loc = loc}}

\* C7: a leaf whose key begins with a valid method list followed by '/' is
\* bound under exactly the lower-cased methods of the list, at the path made
\* of the rest of the key from that '/' on; for get, post, put, del and all
\* alone as for lists.
C7_MethodListParsed ==
    (Registered /\ result.err = "") =>
      \A n \in 1..Len(leaves) :
        HasMethodList(leaves[n].route) =>
          /\ BoundMethods(leaves[n].loc) = KeyMethods(leaves[n].route)
          /\ leaves[n].path =
                finalUrl(leaves[n].currPath,
                         Drop(leaves[n].route, SlashAt(leaves[n].route) - 1))

\* C9: every path bound with the dispatcher or recorded in
\* controllerToPathHash is '/' or does not end with '/'.
C9_NoTrailingSlash ==
    /\ \A i \in 1..Len(routes) :
          routes[i].path = <<"/">> \/ routes[i].path = <<>> \/ Last(routes[i].path) # "/"
    /\ \A name \in DOMAIN controllerToPathHash :
          LET p == controllerToPathHash[name]
          IN  p = <<"/">> \/ p = <<>> \/ Last(p) # "/"

\* The leaf reached at loc by the last registerRoutes.
LeafAt(ls, loc) == ls[CHOOSE n \in 1..Len(ls) : ls[n].loc = loc]

\* A key with nothing before its first '/': no method list.
NoMethodPrefix(key) == key = <<>> \/ Head(key) = "/"

\* What setDefaultMethod and the leaves without method list do, for the set
\* `accepted` of lower-cased method names.
DefaultMethodStep(accepted) ==
    /\ call'.op = "setDefaultMethod" =>
          IF toLowerCase(call'.theMethod) \in accepted
          THEN result'.err = "" /\ defaultMethod' = toLowerCase(call'.theMethod)
          ELSE result'.err = "Invalid HTTP method name" /\ defaultMethod' = defaultMethod
    /\ call'.op = "registerRoutes" =>
          \A i \in 1..Len(routes') :
              NoMethodPrefix(LeafAt(leaves', routes'[i].loc).route)
                  => routes'[i].method = defaultMethod

\* C8 as amended: setDefaultMethod(m) sets the default method to lower-cased m
\* exactly when m is, whatever its letter case, one of get, post, put, del,
\* all; for every other string (delete included) it fails with 'Invalid HTTP
\* method name' and leaves the default method as it was, and the leaves
\* without method list registered afterwards are bound under that default.
C8_DefaultMethodOfGetPostPutDelAll ==
    [][DefaultMethodStep({Chars("get"), Chars("post"), Chars("put"), Chars("del"),
                          Chars("all")})]_vars

\* C8 as stated: the same with the accepted names get, post, put, delete, all.
C8_DefaultMethodOfGetPostPutDeleteAll ==
    [][DefaultMethodStep({Chars("get"), Chars("post"), Chars("put"), Chars("delete"),
                          Chars("all")})]_vars

\* A rejected setDefaultMethod after the default was set to post.
C8_RejectedKeepsPost ==
    /\ call.op = "setDefaultMethod"
    /\ result.err = "Invalid HTTP method name"
    /\ defaultMethod = Chars("post")

\* The names of the chains of the leaves reached.
ChainNames(ls) == UNION {Range(ls[n].chain) : n \in 1..Len(ls)}

\* The leaf recorded the name: the name is in its chain, with no name
\* before it that getController throws on.
Recorded(leaf, name) ==
    \E i \in 1..Len(leaf.chain) :
        leaf.chain[i] = name /\ \A j \in 1..(i - 1) : getController(leaf.chain[j]).ok

InChain(leaf, name) == name \in Range(leaf.chain)

Max(S) == CHOOSE x \in S : \A y \in S : y <= x

\* After a registerRoutes step, each name holds the path of the last leaf of
\* the walk that wrote it (Wrote(leaf, name)), or what it held before.
LastWriteWinsStep(Wrote(_, _)) ==
    call'.op = "registerRoutes" =>
      \A name \in DOMAIN controllerToPathHash \cup DOMAIN controllerToPathHash'
                    \cup ChainNames(leaves') :
        LET writers == {n \in 1..Len(leaves') : Wrote(leaves'[n], name)} IN
        IF writers # {}
        THEN /\ name \in DOMAIN controllerToPathHash'
             /\ controllerToPathHash'[name] = leaves'[Max(writers)].path
        ELSE IF name \in DOMAIN controllerToPathHash
        THEN /\ name \in DOMAIN controllerToPathHash'
             /\ controllerToPathHash'[name] = controllerToPathHash[name]
        ELSE name \notin DOMAIN controllerToPathHash'

\* A registerRoutes step raises an error only for a leaf with a name that
\* does not resolve or a method the server does not have.
NoErrorStep ==
    call'.op = "registerRoutes" =>
      ( (\A n \in 1..Len(leaves') :
            /\ \A i \in 1..Len(leaves'[n].chain) : getController(leaves'[n].chain[i]).ok
            /\ Range(leaves'[n].methods) \subseteq ExpressMethods)
        => result'.err = "" )

\* C10 as amended: after any sequence of registerRoutes calls, the table holds
\* for each name the final path of the most recently processed leaf whose
\* chain (inherited prefix and postfix names included) contains the name at
\* or before the first name of that chain that does not resolve; a name
\* already in the table under another path is overwritten without error.
C10_LastRecordedWins ==
    [][LastWriteWinsStep(Recorded) /\ NoErrorStep]_vars

\* C10 as stated: the path of the most recently processed leaf whose chain
\* contains the name.
C10_LastLeafWins ==
    [][LastWriteWinsStep(InChain) /\ NoErrorStep]_vars

\* The second registerRoutes of a run, without error, has overwritten a name
\* that two of its leaves inherit: the table holds the path of the later leaf.
C10_InheritedNameOverwritten ==
    /\ Registered /\ nCalls = 2 /\ result.err = ""
    /\ \E n, m \in 1..Len(leaves) :
          \E name \in Range(leaves[m].chain) :
             /\ n < m
             /\ name \in Range(leaves[n].chain)
             /\ name \notin Range(leaves[m].names)
             /\ leaves[n].path # leaves[m].path
             /\ controllerToPathHash[name] = leaves[m].path

(***************************************************************************)
(* The walk: keys that hold an object, failures, `required` chains         *)
(***************************************************************************)

\* The tree the last registerRoutes of the walk was given.
WalkTree == WalkTrees[call.tree]

\* The key that leads to the node at loc.
KeyAt(tree, loc) ==
    NodeAt(tree, Take(loc, Len(loc) - 1)).children[loc[Len(loc)]].key

\* The URL of a key: the key without its method list, if it has one.
UrlPart(key) == IF HasMethodList(key) THEN Drop(key, SlashAt(key) - 1) ELSE key

\* The URLs of the first k keys on the way to loc, joined.
RECURSIVE GroupPath(_, _, _)
GroupPath(tree, loc, k) ==
    IF k = 0 THEN <<>>
    ELSE pathJoin(GroupPath(tree, loc, k - 1), UrlPart(KeyAt(tree, Take(loc, k))))

\* The methods of a leaf's own key, or the default method.
OwnMethods(leaf) ==
    IF HasMethodList(leaf.route) THEN KeyMethods(leaf.route) ELSE {defaultMethod}

\* C11: the method list of a key that holds an object is ignored: each leaf is
\* bound at the path made of the URLs of the keys above it (their method
\* lists left out) and of its own URL, under the methods of its own key or
\* the default method; in the README tree the last controller of
\* 'get,post/edit' is bound under get and post at '/social/profile/edit'.
C11_GroupKeyMethodsIgnored ==
    (Registered /\ result.err = "") =>
      /\ \A n \in 1..Len(leaves) :
            /\ leaves[n].path =
                  finalUrl(GroupPath(WalkTree, leaves[n].loc, Len(leaves[n].loc) - 1),
                           UrlPart(leaves[n].route))
            /\ BoundMethods(leaves[n].loc) = OwnMethods(leaves[n])
      /\ WalkTree = ReadmeTree =>
            \A m \in {Chars("get"), Chars("post")} :
               \E i \in 1..Len(routes) :
                  /\ routes[i].method = m
                  /\ routes[i].path = Chars("/social/profile/edit")
                  /\ Last(routes[i].chain) = Chars("depth.test")

\* The places of the nodes of a tree below the node at loc.
RECURSIVE Locs(_, _)
Locs(node, loc) ==
    IF node.kind # "group" THEN {}
    ELSE UNION { {Append(loc, i)} \cup Locs(node.children[i].node, Append(loc, i)) :
                 i \in 1..Len(node.children) }

\* The node at a comes before the node at b in traversal order (a group
\* before the nodes inside it).
RECURSIVE Before(_, _)
Before(a, b) ==
    IF a = <<>> THEN b # <<>>
    ELSE IF b = <<>> THEN FALSE
    ELSE IF Head(a) # Head(b) THEN Head(a) < Head(b)
    ELSE Before(Tail(a), Tail(b))

\* A node value that is neither a string, a sequence of strings nor a group.
Malformed(node) ==
    \/ node.kind \notin {"leaf", "group"}
    \/ node.kind = "leaf" /\ \E i \in 1..Len(node.names) : ~IsString(node.names[i])

MalformedLocs(tree) == {loc \in Locs(tree, <<>>) : Malformed(NodeAt(tree, loc))}

First(S) == CHOOSE a \in S : \A b \in S \ {a} : Before(a, b)

\* A leaf the walk reached whose names all resolve and whose methods the
\* server has.
Sound(leaf) ==
    /\ \A i \in 1..Len(leaf.chain) :
          IsString(leaf.chain[i]) /\ getController(leaf.chain[i]).ok
    /\ Range(leaf.methods) \subseteq ExpressMethods

\* C12: when the tree holds, at any depth, a node that is neither a string, a
\* sequence of strings nor a group (a function, or a sequence with a
\* non-string in it), and nothing else fails before it, registerRoutes fails
\* with 'Invalid Route Definition' and binds no node after the first such
\* node in traversal order.
C12_MalformedNodeFails ==
    ( /\ Registered
      /\ MalformedLocs(WalkTree) # {}
      /\ \A n \in 1..Len(leaves) :
            ~Malformed(NodeAt(WalkTree, leaves[n].loc)) => Sound(leaves[n]) )
    => /\ result.err = "Invalid Route Definition"
       /\ \A i \in 1..Len(routes) :
             Before(routes[i].loc, First(MalformedLocs(WalkTree)))

\* The tree without the node at loc and without the nodes after it in
\* traversal order.
RECURSIVE Prune(_, _)
Prune(node, loc) ==
    LET i    == Head(loc)
        kept == SubSeq(node.children, 1, i - 1)
    IN  IF Len(loc) = 1 THEN [node EXCEPT !.children = kept]
        ELSE [node EXCEPT !.children =
                 Append(kept, [key |-> node.children[i].key,
                               node |-> Prune(node.children[i].node, Tail(loc))])]

\* The node a failed walk stopped at: the leaf it reached last when that leaf
\* is not sound, else the first node that is no leaf and no group.
FailLoc(tree, ls) ==
    IF ls # <<>> /\ ~Sound(Last(ls)) THEN Last(ls).loc
    ELSE First({loc \in Locs(tree, <<>>) : NodeAt(tree, loc).kind \notin {"leaf", "group"}})

\* The table h with the names of a chain recorded at path, up to and
\* including the first name that is no string that resolves.
RECURSIVE RecordUpTo(_, _, _, _)
RecordUpTo(h, chain, i, path) ==
    IF i > Len(chain) THEN h
    ELSE LET k  == propertyKey(chain[i])
             h1 == [x \in DOMAIN h \cup {k} |-> IF x = k THEN path ELSE h[x]]
         IN  IF IsString(chain[i]) /\ getController(chain[i]).ok
             THEN RecordUpTo(h1, chain, i + 1, path)
             ELSE h1

\* The number of methods of a leaf bound before the walk failed at it: none
\* when a name of its chain stopped it, else those before the first method
\* the server does not have.
RECURSIVE LeadingMethods(_)
LeadingMethods(methods) ==
    IF methods # <<>> /\ Head(methods) \in ExpressMethods
    THEN 1 + LeadingMethods(Tail(methods)) ELSE 0

BoundBeforeFailure(leaf) ==
    IF \A i \in 1..Len(leaf.chain) : IsString(leaf.chain[i]) /\ getController(leaf.chain[i]).ok
    THEN LeadingMethods(leaf.methods) ELSE 0

\* What the dispatcher was given: method, path, chain of names and place.
Bound(rs) == [i \in 1..Len(rs) |-> <<rs[i].method, rs[i].path, rs[i].chain, rs[i].loc>>]

\* A registerRoutes that fails leaves the table and the bindings of a
\* registerRoutes that ended normally just before the failing node.
StoppedBeforeStep ==
    (call'.op = "registerRoutes" /\ result'.err # "") =>
      LET tree == WalkTrees[call'.tree]
          st0  == registerRoutes(controllerToPathHash, defaultMethod,
                                 Prune(tree, FailLoc(tree, leaves')))
      IN  /\ st0.err = ""
          /\ controllerToPathHash' = st0.hash
          /\ Bound(routes') = Bound(st0.routes)

\* The same, and on top of it what the failing node did before it failed.
StoppedAtStep ==
    (call'.op = "registerRoutes" /\ result'.err # "") =>
      LET tree == WalkTrees[call'.tree]
          at   == FailLoc(tree, leaves')
          st0  == registerRoutes(controllerToPathHash, defaultMethod, Prune(tree, at))
          leaf == Last(leaves')
      IN  /\ st0.err = ""
          /\ IF NodeAt(tree, at).kind = "leaf"
             THEN /\ controllerToPathHash' = RecordUpTo(st0.hash, leaf.chain, 1, leaf.path)
                  /\ Bound(routes') = Bound(st0.routes) \o
                        [i \in 1..BoundBeforeFailure(leaf) |->
                            <<leaf.methods[i], leaf.path, leaf.chain, leaf.loc>>]
             ELSE /\ controllerToPathHash' = st0.hash
                  /\ Bound(routes') = Bound(st0.routes)

\* C13 as amended: when registerRoutes fails at some node, nothing is rolled
\* back: the bindings and the table are those of a registration that ended
\* normally just before that node, plus what the failing node did before it
\* failed: a leaf has recorded the names of its chain up to and including the
\* first one that is no string that resolves and, when all resolve, is bound
\* under the methods listed before the first one the server does not have.
C13_NothingRolledBack == [][StoppedAtStep]_vars

\* C13 as stated: exactly as if registration had stopped normally just before
\* the failing node.
C13_AsIfStoppedBefore == [][StoppedBeforeStep]_vars

\* A second registerRoutes failed on a name that does not resolve, after it
\* bound a leaf: the name is in the table.
C13_FailedAfterBinding ==
    /\ Registered /\ nCalls = 2
    /\ result.err = "Invalid Controller Path Found"
    /\ routes # <<>>
    /\ Chars("nosuch") \in DOMAIN controllerToPathHash

\* The names the groups above loc declare as prefix, the outer group first,
\* and as postfix, the inner group first (k groups, from the root).
RECURSIVE PrefixAbove(_, _, _)
PrefixAbove(tree, loc, k) ==
    IF k = 0 THEN <<>>
    ELSE PrefixAbove(tree, loc, k - 1) \o
         EntryNames(DeclEntries(NodeAt(tree, Take(loc, k - 1)).required.prefix))

RECURSIVE PostfixAbove(_, _, _)
PostfixAbove(tree, loc, k) ==
    IF k = 0 THEN <<>>
    ELSE EntryNames(DeclEntries(NodeAt(tree, Take(loc, k - 1)).required.postfix)) \o
         PostfixAbove(tree, loc, k - 1)

\* The `required` of a group declares lists, of entries without depth limit.
UnlimitedLists(group) ==
    /\ group.required.prefix.kind \in {"array", "absent"}
    /\ group.required.postfix.kind \in {"array", "absent"}
    /\ \A e \in Range(DeclEntries(group.required.prefix)) \cup
                Range(DeclEntries(group.required.postfix)) : Budget(group, e) = Infinity

\* The groups above loc (by their depth) that declare both a prefix and a
\* postfix list.
DeclaringBoth(tree, loc) ==
    {k \in 0..(Len(loc) - 1) :
        LET r == NodeAt(tree, Take(loc, k)).required
        IN  r.prefix.kind = "array" /\ r.postfix.kind = "array"}

\* C14: a leaf inside nested groups that declare `required` prefix and postfix
\* lists without depth limit is given the chain: the prefix lists from the
\* outer group to the inner one, the leaf's own names as written, the postfix
\* lists from the inner group to the outer one; at every depth below them.
C14_ChainOrder ==
    Registered =>
      \A n \in 1..Len(leaves) :
        LET leaf == leaves[n]
            up   == Len(leaf.loc)
        IN  ( /\ Cardinality(DeclaringBoth(WalkTree, leaf.loc)) >= 2
              /\ \A k \in 0..(up - 1) : UnlimitedLists(NodeAt(WalkTree, Take(leaf.loc, k))) )
            => leaf.chain = PrefixAbove(WalkTree, leaf.loc, up) \o leaf.names \o
                            PostfixAbove(WalkTree, leaf.loc, up)

\* C15: an entry introduced at a group with the depth d >= 1 (its own, or the
\* default depth of that group) is in the chain of the leaves at most d
\* groups below that group and of no leaf deeper than that, whatever default
\* depth the groups below declare.
C15_DepthCountsLevels ==
    Registered =>
      \A n \in 1..Len(leaves) :
        \A k \in 0..(Len(leaves[n].loc) - 1) :
          LET leaf  == leaves[n]
              group == NodeAt(WalkTree, Take(leaf.loc, k))
              below == Len(leaf.loc) - k - 1
              list  == DeclEntries(group.required.prefix) \o DeclEntries(group.required.postfix)
          IN  \A i \in 1..Len(list) :
                LET d == Budget(group, list[i]) IN
                (d >= 1 /\ d # Infinity) =>
                  /\ below <= d => list[i].name \in Range(leaf.chain)
                  /\ ( /\ below > d
                       /\ list[i].name \notin Range(leaf.names)
                       /\ Declarations(WalkTree, leaf.loc, list[i].name) = 1 )
                     => list[i].name \notin Range(leaf.chain)

\* A key whose text before its first '/' is no list of method names.
OddPrefix(key) == "/" \in Range(key) /\ SlashAt(key) > 1 /\ ~HasMethodList(key)

BindingsAt(loc) == {i \in 1..Len(routes) : routes[i].loc = loc}

\* C16: a leaf whose key has, before its first '/', a text that is no
\* comma-separated list of method names ('get,pots/x', 'data/x', 'go/x')
\* raises no error: it is bound once, under the default method, at the path
\* made with the whole key.
C16_OddPrefixIsPath ==
    Registered =>
      \A n \in 1..Len(leaves) :
        ( /\ OddPrefix(leaves[n].route)
          /\ \A i \in 1..Len(leaves[n].chain) : getController(leaves[n].chain[i]).ok )
        => /\ result.err = ""
           /\ Cardinality(BindingsAt(leaves[n].loc)) = 1
           /\ BoundMethods(leaves[n].loc) = {defaultMethod}
           /\ leaves[n].path = finalUrl(leaves[n].currPath, leaves[n].route)

\* The bindings of the leaf at loc under the method m.
BindingsOf(loc, m) == {i \in BindingsAt(loc) : routes[i].method = m}

\* C17: after a registerRoutes without error every leaf is bound exactly once
\* under each distinct method of its method list (once, under the default
\* method, when its key has none), each time with the leaf's final path and
\* chain; a method written twice in the list gives no second binding.
C17_OncePerMethod ==
    (Registered /\ result.err = "") =>
      \A n \in 1..Len(leaves) :
        /\ \A m \in OwnMethods(leaves[n]) :
              Cardinality(BindingsOf(leaves[n].loc, m)) = 1
        /\ \A i \in BindingsAt(leaves[n].loc) :
              /\ routes[i].method \in OwnMethods(leaves[n])
              /\ routes[i].path = leaves[n].path
              /\ routes[i].chain = leaves[n].chain
              /\ \A j \in 1..Len(routes[i].chain) :
                    routes[i].handlers[j] = getController(routes[i].chain[j]).handler

\* The path with each optional placeholder (":name?") removed and nothing
\* else.
RECURSIVE WithoutOptional(_)
WithoutOptional(p) ==
    IF p = <<>> THEN <<>>
    ELSE IF Head(p) = ":"
    THEN LET n    == nameRun(Tail(p))
             rest == Drop(Tail(p), n)
         IN  IF rest # <<>> /\ Head(rest) = "?"
             THEN WithoutOptional(Tail(rest))
             ELSE <<":">> \o Take(Tail(p), n) \o WithoutOptional(rest)
    ELSE <<Head(p)>> \o WithoutOptional(Tail(p))

\* C18: getControllerUrl, once the params are substituted, removes the
\* optional placeholders that received no value and nothing else: what is
\* checked for a missing parameter, and returned when none is missing, is the
\* substituted path without them, a required placeholder before an optional
\* one ('/:a/x/:b?') still in it.
C18_OnlyOptionalRemoved ==
    AskedRegistered =>
      LET left == WithoutOptional(replaceParams(Template, call.params)) IN
      IF ":" \in Range(left)
      THEN result.err = "Missing required parameter(s)" /\ result.val = left
      ELSE result.err = "" /\ result.val = pathJoin(<<>>, left)

\* The name, walked by its dot-separated segments, leads to a controller of
\* the controllers object.
InNamespace(name) == IsString(name) /\ split(name, ".") \in Controllers

\* C19: when a name of the chain of a leaf (inherited prefix name, own name or
\* inherited postfix name) leads to no controller, registerRoutes fails with
\* 'Invalid Controller Path Found' and the leaf is bound under none of its
\* methods.
C19_UnresolvedNameFails ==
    Registered =>
      \A n \in 1..Len(leaves) :
        ( /\ \A i \in 1..Len(leaves[n].chain) : IsString(leaves[n].chain[i])
          /\ \E i \in 1..Len(leaves[n].chain) : ~InNamespace(leaves[n].chain[i]) )
        => /\ result.err = "Invalid Controller Path Found"
           /\ BindingsAt(leaves[n].loc) = {}

\* C20: the chain of a leaf depends on its own names and on the `required` of
\* the groups above it only, not on the order of the keys: two leaves with the
\* same names that are children of the same group have the same chain,
\* whether a sibling group with its own `required` comes before or after them.
C20_ChainIndependentOfKeyOrder ==
    Registered =>
      \A n, m \in 1..Len(leaves) :
        ( /\ Take(leaves[n].loc, Len(leaves[n].loc) - 1) =
                Take(leaves[m].loc, Len(leaves[m].loc) - 1)
          /\ leaves[n].names = leaves[m].names )
        => leaves[n].chain = leaves[m].chain

(***************************************************************************)
(* The names of the table, and the keys of params                          *)
(***************************************************************************)

\* getController returns a controller for the element of a chain.
Resolved(v) == IsString(v) /\ getController(v).ok

\* The leaf wrote the name only if its whole chain resolved.
WroteResolved(leaf, name) ==
    InChain(leaf, name) /\ \A i \in 1..Len(leaf.chain) : Resolved(leaf.chain[i])

\* The first element of a chain that does not resolve.
FirstUnresolved(chain) ==
    CHOOSE i \in 1..Len(chain) :
        ~Resolved(chain[i]) /\ \A j \in 1..(i - 1) : Resolved(chain[j])

\* The walk failed at the leaf it reached last, on an element of its chain.
FailedOnName(ls, err) ==
    err # "" /\ ls # <<>> /\ \E i \in 1..Len(Last(ls).chain) : ~Resolved(Last(ls).chain[i])

\* After each call the table holds resolved names only: a name that does not
\* resolve is refused by getControllerUrl, and a leaf with such a name in its
\* chain has written nothing.
OnlyResolvedStep ==
    /\ \A name \in DOMAIN controllerToPathHash' : getController(name).ok
    /\ (call'.op = "getControllerUrl" /\ ~getController(call'.controller).ok)
          => result'.err = "Invalid Controller Requested"
    /\ LastWriteWinsStep(WroteResolved)

\* After each call the table holds what was recorded: a registerRoutes adds
\* resolved names and, when it fails on a name, that name; the leaf it failed
\* at has written its names up to that one; getControllerUrl answers for
\* every name of the table with a path.
RecordedFirstStep ==
    /\ call'.op = "registerRoutes" =>
          LET failed == FailedOnName(leaves', result'.err)
              leaf   == Last(leaves')
          IN  /\ \A name \in DOMAIN controllerToPathHash' \ DOMAIN controllerToPathHash :
                    \/ getController(name).ok
                    \/ failed /\ name = propertyKey(leaf.chain[FirstUnresolved(leaf.chain)])
              /\ failed =>
                    \A i \in 1..FirstUnresolved(leaf.chain) :
                       /\ propertyKey(leaf.chain[i]) \in DOMAIN controllerToPathHash'
                       /\ controllerToPathHash'[propertyKey(leaf.chain[i])] = leaf.path
    /\ ( /\ call'.op = "getControllerUrl"
         /\ call'.controller \in DOMAIN controllerToPathHash
         /\ controllerToPathHash[call'.controller] # <<>> )
          => result'.err # "Invalid Controller Requested"

BeginsWith(name, key) ==
    Len(key) < Len(name) /\ SubSeq(name, 1, Len(key)) = key

\* The template asked for has a placeholder whose name begins with a key of
\* params that is not its own.
PrefixKeyAsked ==
    /\ AskedRegistered
    /\ \A ph \in Placeholders(Template) : ~ph.optional
    /\ \E ph \in Placeholders(Template) :
          \E key \in ParamKeys(call.params) : BeginsWith(ph.name, key)

\* C22: a key of params replaces the placeholders of exactly its name: when
\* the template has a placeholder whose name only begins with a key, the
\* result is still the template with every placeholder replaced by the value
\* of its own key, or 'Missing required parameter(s)' when one has none, in
\* whatever order params lists its keys.
C22_ExactNameOnly ==
    PrefixKeyAsked =>
        IF \A ph \in Placeholders(Template) : ph.name \in ParamKeys(call.params)
        THEN result.err = "" /\ result.val = Substituted(Template, call.params)
        ELSE result.err = "Missing required parameter(s)"

====
